---- MODULE Spec2Model ----
(***************************************************************************)
(* Model of the explorer's pagination helper (helpers/paginationHelper.js) *)
(* and of the page-change handlers of the table components that use it.    *)
(*                                                                         *)
(* JavaScript values are represented as follows:                           *)
(*   - a string is a sequence of one-character strings ("19" is            *)
(*     <<"1","9">>), so that toString and parseInt are real conversions;   *)
(*   - null and undefined are the sequences <<"null">> and <<"undefined">>,*)
(*     which are no strings (their element is not one character);          *)
(*   - the result of parseInt and of arithmetic on it is a record          *)
(*     [isNaN, n]: NaN, or the integer n;                                  *)
(*   - an object literal is a record with exactly the keys it lists.       *)
(***************************************************************************)
EXTENDS Integers, Sequences, FiniteSets

VARIABLES call, returned, route, entity, serverTotal, props, pending,
          nRequests, lastRequest, nRefetches, lastRefetch, nErrorsLogged

calcVars == <<call, returned>>
tableVars == <<route, entity, serverTotal, props, pending,
               nRequests, lastRequest, nRefetches, lastRefetch, nErrorsLogged>>
vars == <<call, returned, route, entity, serverTotal, props, pending,
          nRequests, lastRequest, nRefetches, lastRefetch, nErrorsLogged>>

(***************************************************************************)
(* Bounds of the model.                                                    *)
(***************************************************************************)
MaxPageSize == 11
MaxTotalCount == 25
MaxPageNum == 26
MaxNegPageNum == 2
MaxCursor == 30
MaxEdges == 3
MaxClicks == 3
MaxTableTotal == 25
MaxTablePage == 4

(***************************************************************************)
(* JavaScript values.                                                      *)
(***************************************************************************)
Null == <<"null">>
Undefined == <<"undefined">>

NaN == [isNaN |-> TRUE, n |-> 0]
Num(k) == [isNaN |-> FALSE, n |-> k]

DigitChars == <<"0", "1", "2", "3", "4", "5", "6", "7", "8", "9">>
IsDigit(c) == \E d \in 1..10 : DigitChars[d] = c
DigitValue(c) == (CHOOSE d \in 1..10 : DigitChars[d] = c) - 1
IsWhiteSpace(c) == c = " "

RECURSIVE Digits(_)
Digits(n) ==
    IF n < 10 THEN <<DigitChars[n + 1]>>
    ELSE Digits(n \div 10) \o <<DigitChars[(n % 10) + 1]>>

\* Number.prototype.toString() of an integer
toString(n) == IF n < 0 THEN <<"-">> \o Digits(0 - n) ELSE Digits(n)

RECURSIVE TrimStart(_)
TrimStart(s) ==
    IF s # <<>> /\ IsWhiteSpace(Head(s)) THEN TrimStart(Tail(s)) ELSE s

RECURSIVE DigitPrefix(_)
DigitPrefix(s) ==
    IF s # <<>> /\ IsDigit(Head(s)) THEN <<Head(s)>> \o DigitPrefix(Tail(s))
    ELSE <<>>

RECURSIVE DigitsValue(_)
DigitsValue(ds) ==
    IF ds = <<>> THEN 0
    ELSE 10 * DigitsValue(SubSeq(ds, 1, Len(ds) - 1)) + DigitValue(ds[Len(ds)])

\* Number.parseInt(value, 10): the argument is converted to a string (null
\* and undefined become "null" and "undefined", which hold no digit), leading
\* white space is skipped, an optional sign is read, and the longest prefix of
\* decimal digits is the value; NaN when that prefix is empty.
parseIntStrict(v) ==
    LET s == TrimStart(v)
        neg == s # <<>> /\ Head(s) = "-"
        body == IF s # <<>> /\ Head(s) \in {"-", "+"} THEN Tail(s) ELSE s
    IN  IF v \in {Null, Undefined} \/ body = <<>> \/ \E i \in 1..Len(body) : ~IsDigit(body[i])
        THEN NaN
        ELSE Num(IF neg THEN 0 - DigitsValue(body) ELSE DigitsValue(body))

parseInt(v) ==
    IF v \in {Null, Undefined} THEN NaN
    ELSE LET s == TrimStart(v)
             neg == s # <<>> /\ Head(s) = "-"
             body == IF s # <<>> /\ Head(s) \in {"-", "+"} THEN Tail(s) ELSE s
             ds == DigitPrefix(body)
         IN  IF ds = <<>> THEN NaN
             ELSE Num(IF neg THEN 0 - DigitsValue(ds) ELSE DigitsValue(ds))

(***************************************************************************)
(* helpers/constants.js and helpers/paginationHelper.js                    *)
(***************************************************************************)
TABLE_PAGE_SIZE == 10

pageRemainder(totalCount, pageSize) == totalCount % pageSize

pageOffsetZeroWhenEven(totalCount, pageSize) ==
    IF pageRemainder(totalCount, pageSize) = 0 THEN 0
    ELSE pageSize - pageRemainder(totalCount, pageSize)

pageOffset(totalCount, pageSize) == pageSize - pageRemainder(totalCount, pageSize)

RECURSIVE MapNode(_)
MapNode(edges) ==
    IF edges = <<>> THEN <<>> ELSE <<Head(edges).node>> \o MapNode(Tail(edges))

RECURSIVE MapNodeReversed(_)
MapNodeReversed(edges) ==
    IF edges = <<>> THEN <<>> ELSE MapNodeReversed(Tail(edges)) \o <<Head(edges).node>>

getNodeListReversed(connection) == MapNodeReversed(connection.edges)

getNodeList(connection) == MapNode(connection.edges)

getNextPageQueryParamChecked(connection) ==
    IF connection.pageInfo.hasNextPage
    THEN [after |-> connection.pageInfo.endCursor, first |-> TABLE_PAGE_SIZE]
    ELSE [after |-> connection.pageInfo.startCursor, first |-> TABLE_PAGE_SIZE]

getNextPageQueryParam(connection) ==
    [after |-> connection.pageInfo.endCursor, first |-> TABLE_PAGE_SIZE]

getPreviousPageQueryParamChecked(connection) ==
    IF connection.pageInfo.hasPreviousPage
    THEN [before |-> connection.pageInfo.startCursor, last |-> TABLE_PAGE_SIZE]
    ELSE [before |-> connection.pageInfo.endCursor, last |-> TABLE_PAGE_SIZE]

getPreviousPageQueryParam(connection) ==
    [before |-> connection.pageInfo.startCursor, last |-> TABLE_PAGE_SIZE]

\* Math.floor(x / pageSize) + 1 for a number x and a positive pageSize: NaN
\* stays NaN through the division, the floor and the addition.
FloorDivPlusOne(x, pageSize) ==
    IF x.isNaN THEN NaN ELSE Num((x.n \div pageSize) + 1)

pageNumberDescCeil(connection, pageSize) ==
    LET x == parseInt(connection.pageInfo.endCursor)
    IN  IF x.isNaN THEN NaN ELSE Num((x.n + pageSize - 1) \div pageSize)

\* the pageSize parameter defaults to TABLE_PAGE_SIZE: a caller that leaves
\* it out is modelled as passing TABLE_PAGE_SIZE (so for getDescPageQuery)
pageNumberDesc(connection, pageSize) ==
    LET pageEnd == connection.pageInfo.endCursor
    IN  FloorDivPlusOne(parseInt(pageEnd), pageSize)

getDescPageQueryNoOffset(pageNum, totalCount, pageSize) ==
    [before |-> toString(pageNum * pageSize + 1), last |-> pageSize]

getDescPageQueryValidated(pageNum, totalCount, pageSize) ==
    IF pageNum <= 0 \/ totalCount = 0 THEN [error |-> "InvalidPage"]
    ELSE [before |-> toString(pageNum * pageSize + 1 - pageOffset(totalCount, pageSize)),
          last |-> pageSize]

getDescPageQueryBothWays(pageNum, totalCount, pageSize) ==
    LET offset == pageOffset(totalCount, pageSize)
        pageEnd == pageNum * pageSize + 1
    IN  [before |-> toString(pageEnd - offset), last |-> pageSize,
         after |-> toString(pageEnd - offset), first |-> pageSize]

getDescPageQuery(pageNum, totalCount, pageSize) ==
    LET offset == pageOffset(totalCount, pageSize)
        pageEnd == pageNum * pageSize + 1
    IN  [before |-> toString(pageEnd - offset), last |-> pageSize]

(***************************************************************************)
(* The GraphQL server behind Relay, as the pagination helper assumes it:   *)
(* the items of a sequence of length total carry the cursors "0" ..        *)
(* "total-1"; a query (last, before) answers the last `last` items whose   *)
(* index is below `before` (below total when before is null), in index     *)
(* order, and pageInfo names the first and the last cursor of the answer.  *)
(***************************************************************************)
WindowHigh(before, total) ==
    IF before = Null THEN total - 1
    ELSE IF parseInt(before).n - 1 < total - 1 THEN parseInt(before).n - 1 ELSE total - 1

WindowLow(before, last, total) ==
    IF WindowHigh(before, total) - last + 1 > 0
    THEN WindowHigh(before, total) - last + 1 ELSE 0

ValidBefore(before) ==
    before = Null \/ (~parseInt(before).isNaN /\ parseInt(before).n >= 0
                      /\ before = toString(parseInt(before).n))

FetchConnection(last, before, total) ==
    LET lo == WindowLow(before, last, total)
        hi == WindowHigh(before, total)
        len == IF hi >= lo THEN hi - lo + 1 ELSE 0
        edges == [i \in 1..len |-> [cursor |-> toString(lo + i - 1), node |-> lo + i - 1]]
    IN  [edges |-> edges,
         pageInfo |-> [startCursor |-> IF len = 0 THEN Null ELSE edges[1].cursor,
                       endCursor |-> IF len = 0 THEN Null ELSE edges[len].cursor,
                       hasNextPage |-> FALSE,
                       hasPreviousPage |-> len > 0 /\ lo > 0],
         totalCount |-> total]

(***************************************************************************)
(* Inputs of the calls to the helper.                                      *)
(***************************************************************************)
PageSizes == 1..MaxPageSize
TotalCounts == 0..MaxTotalCount
PageNums == (0 - MaxNegPageNum)..MaxPageNum

DecimalCursors == {toString(e) : e \in 0..MaxCursor}

\* cursors that are not the decimal string of a non-negative integer
OtherCursors ==
    { <<"a", "b", "c">>, <<>>, <<"1", "2", "a">>, <<"1", ".", "5">>,
      <<" ", "7">>, <<"-", "5">>, <<"+", "3">>, <<"x", "9">>, <<"-">>, Null }

Cursors == DecimalCursors \cup OtherCursors

Nodes == {"tx_a", "tx_b", "tx_c"}

EdgesFrom(first, nodes) ==
    [i \in 1..Len(nodes) |-> [cursor |-> toString(first + i - 1), node |-> nodes[i]]]

NodeSeqs == UNION {[1..n -> Nodes] : n \in 0..MaxEdges}

PageInfoOf(start, end, next, prev) ==
    [startCursor |-> start, endCursor |-> end, hasNextPage |-> next, hasPreviousPage |-> prev]

Connection(edges, pageInfo, totalCount) ==
    [edges |-> edges, pageInfo |-> pageInfo, totalCount |-> totalCount]

(***************************************************************************)
(* Calls to the helper: call is the call made, ret what it returned.  The   *)
(* variable holds the value returned under a key that names its kind (a    *)
(* number, a query parameter object, a list of nodes, a connection).       *)
(***************************************************************************)
ret == returned[CHOOSE kind \in DOMAIN returned : TRUE]

NoCall == [op |-> "none"]

CallGetNodeList ==
    /\ call.op = "none"
    /\ \E nodes \in NodeSeqs, first \in 0..1 :
        LET edges == EdgesFrom(first, nodes)
            connection ==
                Connection(edges,
                           PageInfoOf(IF edges = <<>> THEN Null ELSE edges[1].cursor,
                                      IF edges = <<>> THEN Null ELSE edges[Len(edges)].cursor,
                                      FALSE, first > 0),
                           first + Len(edges))
        IN  /\ call' = [op |-> "getNodeList", connection |-> connection]
            /\ returned' = [nodes |-> getNodeList(connection)]
            /\ UNCHANGED tableVars

CallGetNextPageQueryParam ==
    /\ call.op = "none"
    /\ \E start \in 0..MaxEdges, len \in 0..MaxEdges, next \in BOOLEAN, prev \in BOOLEAN :
        LET connection ==
                Connection(<<>>,
                           PageInfoOf(toString(start), toString(start + len), next, prev),
                           start + len + 1)
        IN  /\ call' = [op |-> "getNextPageQueryParam", connection |-> connection]
            /\ returned' = [query |-> getNextPageQueryParam(connection)]
            /\ UNCHANGED tableVars

CallGetPreviousPageQueryParam ==
    /\ call.op = "none"
    /\ \E start \in 0..MaxEdges, len \in 0..MaxEdges, next \in BOOLEAN, prev \in BOOLEAN :
        LET connection ==
                Connection(<<>>,
                           PageInfoOf(toString(start), toString(start + len), next, prev),
                           start + len + 1)
        IN  /\ call' = [op |-> "getPreviousPageQueryParam", connection |-> connection]
            /\ returned' = [query |-> getPreviousPageQueryParam(connection)]
            /\ UNCHANGED tableVars

CallPageNumberDesc ==
    /\ call.op = "none"
    /\ \E endCursor \in Cursors, pageSize \in PageSizes :
        LET connection ==
                Connection(<<>>, PageInfoOf(endCursor, endCursor, FALSE, FALSE), 0)
        IN  /\ call' = [op |-> "pageNumberDesc", connection |-> connection,
                        pageSize |-> pageSize, fetched |-> FALSE,
                        pageNum |-> 0, totalCount |-> 0]
            /\ returned' = [number |-> pageNumberDesc(connection, pageSize)]
            /\ UNCHANGED tableVars

CallGetDescPageQuery ==
    /\ call.op = "none"
    /\ \E pageNum \in PageNums, totalCount \in TotalCounts, pageSize \in PageSizes :
        /\ call' = [op |-> "getDescPageQuery", pageNum |-> pageNum,
                    totalCount |-> totalCount, pageSize |-> pageSize]
        /\ returned' = [query |-> getDescPageQuery(pageNum, totalCount, pageSize)]
        /\ UNCHANGED tableVars

\* the fetch of the page that the last getDescPageQuery asked for
SimulateFetch ==
    /\ call.op = "getDescPageQuery"
    /\ ValidBefore(ret.before)
    /\ call' = [op |-> "fetch", query |-> ret, pageNum |-> call.pageNum,
                totalCount |-> call.totalCount, pageSize |-> call.pageSize]
    /\ returned' = [connection |-> FetchConnection(ret.last, ret.before, call.totalCount)]
    /\ UNCHANGED tableVars

\* pageNumberDesc on the connection just fetched, with the same page size
CallPageNumberDescFetched ==
    /\ call.op = "fetch"
    /\ call' = [op |-> "pageNumberDesc", connection |-> ret,
                pageSize |-> call.pageSize, fetched |-> TRUE,
                pageNum |-> call.pageNum, totalCount |-> call.totalCount]
    /\ returned' = [number |-> pageNumberDesc(ret, call.pageSize)]
    /\ UNCHANGED tableVars

\* the caller is done with the value returned: the helper keeps no state
ReturnToCaller ==
    /\ call.op # "none"
    /\ call' = NoCall
    /\ returned' = [nothing |-> Null]
    /\ UNCHANGED tableVars

NoTable ==
    /\ route = "none"
    /\ entity = Null
    /\ serverTotal = 0
    /\ props = [present |-> FALSE]
    /\ pending = <<>>
    /\ nRequests = 0
    /\ lastRequest = [page |-> 0]
    /\ nRefetches = 0
    /\ lastRefetch = [last |-> Null]
    /\ nErrorsLogged = 0

(***************************************************************************)
(* The table components.  The router mounts one of them at a time:         *)
(* RecentBlocksTable at "/", StakePoolBlockTable at "pool/:id",            *)
(* AddressTransactionTable at "address/:bech32".                           *)
(***************************************************************************)
Routes == {"recentBlocks", "stakePool", "address"}

EntityIds(r) ==
    IF r = "stakePool" THEN {<<"p", "1">>, <<"p", "2">>}
    ELSE IF r = "address" THEN {<<"a", "1">>, <<"a", "2">>}
    ELSE {Null}

\* value || null, for the value of a query parameter of an object literal:
\* a key the object does not have is undefined, and undefined, the number 0
\* and the empty string are falsy
OrNull(object, key) ==
    IF key \notin DOMAIN object THEN Null
    ELSE IF key \in {"first", "last"} /\ object[key] = 0 THEN Null
    ELSE IF key \in {"after", "before"} /\ object[key] = <<>> THEN Null
    ELSE object[key]

AddressTransactionTable_variablesNoId(address, page) ==
    LET connection == address.transactions
        params == getDescPageQuery(page, connection.totalCount, TABLE_PAGE_SIZE)
    IN  [address |-> Null,
         first |-> OrNull(params, "first"),
         last |-> OrNull(params, "last"),
         after |-> OrNull(params, "after"),
         before |-> OrNull(params, "before")]

AddressTransactionTable_variables(address, page) ==
    LET connection == address.transactions
        params == getDescPageQuery(page, connection.totalCount, TABLE_PAGE_SIZE)
    IN  [address |-> address.id,
         first |-> OrNull(params, "first"),
         last |-> OrNull(params, "last"),
         after |-> OrNull(params, "after"),
         before |-> OrNull(params, "before")]

StakePoolBlockTable_variables(stakePool, page) ==
    LET connection == stakePool.blocks
        params == getDescPageQuery(page, connection.totalCount, TABLE_PAGE_SIZE)
    IN  [poolId |-> stakePool.id,
         first |-> OrNull(params, "first"),
         last |-> OrNull(params, "last"),
         after |-> OrNull(params, "after"),
         before |-> OrNull(params, "before")]

RecentBlocksTable_variables(data, page) ==
    LET connection == data.blocks
        params == getDescPageQuery(page, connection.totalCount, TABLE_PAGE_SIZE)
    IN  [first |-> OrNull(params, "first"),
         last |-> OrNull(params, "last"),
         after |-> OrNull(params, "after"),
         before |-> OrNull(params, "before")]

currentPageFromStartCursor(connection) ==
    FloorDivPlusOne(parseInt(connection.pageInfo.startCursor), TABLE_PAGE_SIZE)

\* the page number each table hands to its pager
currentPage(connection) == pageNumberDesc(connection, TABLE_PAGE_SIZE)

\* the props the router gives the page of a route, which QueryWrapper hands
\* to the query as its variables
RouteVariables(r, id) ==
    IF r = "address" THEN [txCount |-> TABLE_PAGE_SIZE, bech32 |-> id]
    ELSE IF r = "stakePool" THEN [blocksCount |-> TABLE_PAGE_SIZE, id |-> id]
    ELSE [blocksCount |-> TABLE_PAGE_SIZE]

\* the arguments of the table's fragment in the first query: last is the
\* count variable, the arguments the query does not pass are null
FragmentArguments(r, variables) ==
    [first |-> Null,
     last |-> IF r = "address" THEN variables.txCount ELSE variables.blocksCount,
     after |-> Null,
     before |-> Null]

\* the data a table is rendered with, for what the server answered
DataOf(r, id, present, connection) ==
    IF r = "address" THEN [id |-> id, present |-> present, transactions |-> connection]
    ELSE IF r = "stakePool" THEN [id |-> id, present |-> present, blocks |-> connection]
    ELSE [present |-> present, blocks |-> connection]

ConnectionOf(r, data) == IF r = "address" THEN data.transactions ELSE data.blocks

\* the page opens: the router mounts the table with the data of the first
\* query, which asks for the last TABLE_PAGE_SIZE items
Navigate ==
    /\ route = "none"
    /\ \E r \in Routes, total \in 0..MaxTableTotal, present \in BOOLEAN :
        \E id \in EntityIds(r) :
            /\ r = "recentBlocks" => present
            /\ route' = r
            /\ entity' = id
            /\ serverTotal' = total
            /\ props' = DataOf(r, id, present,
                               FetchConnection(FragmentArguments(r, RouteVariables(r, id)).last,
                                               FragmentArguments(r, RouteVariables(r, id)).before,
                                               total))
    /\ pending' = <<>>
    /\ nRequests' = 0
    /\ lastRequest' = [page |-> 0]
    /\ nRefetches' = 0
    /\ lastRefetch' = [last |-> Null]
    /\ nErrorsLogged' = 0
    /\ UNCHANGED calcVars

\* the pager of a mounted table asks for a page: handlePageChange(page).
\* Relay keeps one refetch of a container in flight: a new one replaces it.
PageChange(r, variables, page) ==
    /\ route = r
    /\ props.present
    /\ nRequests < MaxClicks
    /\ nRequests' = nRequests + 1
    /\ lastRequest' = [page |-> page, totalCount |-> ConnectionOf(r, props).totalCount]
    /\ nRefetches' = nRefetches + 1
    /\ lastRefetch' = variables
    /\ pending' = <<variables>>
    /\ UNCHANGED <<route, entity, serverTotal, props, nErrorsLogged>>
    /\ UNCHANGED calcVars

AddressTransactionTable_handlePageChange ==
    \E page \in 1..MaxTablePage :
        PageChange("address", AddressTransactionTable_variables(props, page), page)

StakePoolBlockTable_handlePageChange ==
    \E page \in 1..MaxTablePage :
        PageChange("stakePool", StakePoolBlockTable_variables(props, page), page)

RecentBlocksTable_handlePageChange ==
    \E page \in 1..MaxTablePage :
        PageChange("recentBlocks", RecentBlocksTable_variables(props, page), page)

\* the refetch in flight is answered: the table is rendered with the new data
RefetchDone ==
    /\ pending # <<>>
    /\ ValidBefore(Head(pending).before)
    /\ props' = DataOf(route, entity, TRUE,
                       FetchConnection(Head(pending).last, Head(pending).before, serverTotal))
    /\ pending' = <<>>
    /\ UNCHANGED <<route, entity, serverTotal, nRequests, lastRequest,
                   nRefetches, lastRefetch, nErrorsLogged>>
    /\ UNCHANGED calcVars

\* the refetch in flight fails: its callback logs the error, the data stay
RefetchError ==
    /\ pending # <<>>
    /\ pending' = <<>>
    /\ nErrorsLogged' = nErrorsLogged + 1
    /\ UNCHANGED <<route, entity, serverTotal, props, nRequests, lastRequest,
                   nRefetches, lastRefetch>>
    /\ UNCHANGED calcVars

Init ==
    /\ call = NoCall
    /\ returned = [nothing |-> Null]
    /\ NoTable

Next ==
    \/ CallGetNodeList
    \/ CallGetNextPageQueryParam
    \/ CallGetPreviousPageQueryParam
    \/ CallPageNumberDesc
    \/ CallGetDescPageQuery
    \/ SimulateFetch
    \/ CallPageNumberDescFetched
    \/ ReturnToCaller

Spec == Init /\ [][Next]_vars

NextTables ==
    \/ Navigate
    \/ AddressTransactionTable_handlePageChange
    \/ StakePoolBlockTable_handlePageChange
    \/ RecentBlocksTable_handlePageChange
    \/ RefetchDone
    \/ RefetchError

SpecTables == Init /\ [][NextTables]_vars

(***************************************************************************)
(* Properties.                                                             *)
(***************************************************************************)
\* the number of pages of totalCount items, ceil(totalCount / pageSize)
LastPage(totalCount, pageSize) == (totalCount + pageSize - 1) \div pageSize

\* s is the decimal string of a non-negative integer
IsDecimalString(s) ==
    /\ s # Null
    /\ Len(s) >= 1
    /\ \A i \in 1..Len(s) : IsDigit(s[i])
    /\ Len(s) > 1 => s[1] # "0"

\* s is the decimal string of an integer
IsIntegerString(s) ==
    \/ IsDecimalString(s)
    \/ /\ s # Null
       /\ Len(s) >= 2
       /\ s[1] = "-"
       /\ IsDecimalString(Tail(s))
       /\ Tail(s) # <<"0">>

\* C1: round trip. For totalCount >= 1 and a page p in 1..ceil(totalCount /
\* pageSize), pageNumberDesc on the connection fetched with
\* getDescPageQuery(p, totalCount, pageSize), whose endCursor is the last
\* index of the page fetched, returns p.
C1_RoundTrip ==
    ( /\ call.op = "pageNumberDesc"
      /\ call.fetched
      /\ call.totalCount >= 1
      /\ call.pageNum \in 1..LastPage(call.totalCount, call.pageSize) )
    => /\ call.connection.pageInfo.endCursor =
              call.connection.edges[Len(call.connection.edges)].cursor
       /\ ret = Num(call.pageNum)

C1_Witness ==
    /\ call.op = "pageNumberDesc"
    /\ call.fetched
    /\ call.totalCount = 25
    /\ call.pageSize = 10
    /\ call.pageNum = 3
    /\ call.connection.pageInfo.endCursor = <<"2", "4">>
    /\ ret = Num(3)

\* C2: for an endCursor that is the decimal string of e >= 0 and a positive
\* pageSize, pageNumberDesc returns floor(e / pageSize) + 1; it returns 1
\* exactly when e is in 0..pageSize-1; "19" with page size 10 gives 2.
C2_PageNumberFormula ==
    ( /\ call.op = "pageNumberDesc"
      /\ call.connection.pageInfo.endCursor \in DecimalCursors )
    => LET cursor == call.connection.pageInfo.endCursor
           e == CHOOSE k \in 0..MaxCursor : toString(k) = cursor
       IN  /\ IsDecimalString(cursor)
           /\ ret = Num((e \div call.pageSize) + 1)
           /\ (ret = Num(1)) <=> (e \in 0..(call.pageSize - 1))
           /\ (cursor = <<"1", "9">> /\ call.pageSize = 10) => ret = Num(2)

C2_Witness ==
    /\ call.op = "pageNumberDesc"
    /\ ~call.fetched
    /\ call.connection.pageInfo.endCursor = <<"1", "9">>
    /\ call.pageSize = 10
    /\ ret = Num(2)

\* C3 as stated: for an endCursor that is not a base-10 integer string,
\* pageNumberDesc fails with MalformedCursor and returns no page number.
C3_FailsWithMalformedCursor ==
    ( /\ call.op = "pageNumberDesc"
      /\ ~IsIntegerString(call.connection.pageInfo.endCursor) )
    => /\ "error" \in DOMAIN ret
       /\ ret.error = "MalformedCursor"

\* C3 as the code has it: pageNumberDesc raises no error. For an endCursor
\* that is not a base-10 integer string it returns NaN when no decimal digit
\* follows the optional white space and sign at its start ("abc", "", null),
\* and floor(n / pageSize) + 1 for the integer n that its leading digits
\* spell otherwise ("12a" counts as 12).
C3_ReturnsNaNOrPrefixPage ==
    ( /\ call.op = "pageNumberDesc"
      /\ ~IsIntegerString(call.connection.pageInfo.endCursor) )
    => LET cursor == call.connection.pageInfo.endCursor
       IN  /\ DOMAIN ret = {"isNaN", "n"}
           /\ cursor \in {<<"a", "b", "c">>, <<>>, Null, <<"x", "9">>, <<"-">>} => ret = NaN
           /\ cursor = <<"1", "2", "a">> => ret = Num((12 \div call.pageSize) + 1)
           /\ cursor = <<"1", ".", "5">> => ret = Num((1 \div call.pageSize) + 1)
           /\ cursor = <<" ", "7">> => ret = Num((7 \div call.pageSize) + 1)
           /\ cursor = <<"+", "3">> => ret = Num((3 \div call.pageSize) + 1)

C3_Witness ==
    /\ call.op = "pageNumberDesc"
    /\ call.connection.pageInfo.endCursor = <<"a", "b", "c">>
    /\ call.pageSize = 10
    /\ ret = NaN

\* C4: getDescPageQuery(pageNum, totalCount, pageSize) returns exactly
\* { before: the decimal string of (pageNum * pageSize + 1) - (pageSize -
\* totalCount mod pageSize), last: pageSize }; (1, 25, 10) gives before "6"
\* and (1, 20, 10) gives before "1".
C4_DescPageQueryFormula ==
    call.op = "getDescPageQuery"
    => LET value == (call.pageNum * call.pageSize + 1)
                    - (call.pageSize - (call.totalCount % call.pageSize))
       IN  /\ DOMAIN ret = {"before", "last"}
           /\ ret.last = call.pageSize
           /\ IsIntegerString(ret.before)
           /\ parseInt(ret.before) = Num(value)
           /\ (call.pageNum = 1 /\ call.totalCount = 25 /\ call.pageSize = 10)
                  => ret = [before |-> <<"6">>, last |-> 10]
           /\ (call.pageNum = 1 /\ call.totalCount = 20 /\ call.pageSize = 10)
                  => ret = [before |-> <<"1">>, last |-> 10]

C4_Witness ==
    /\ call.op = "getDescPageQuery"
    /\ call.pageNum = 1
    /\ call.totalCount = 25
    /\ call.pageSize = 10
    /\ ret = [before |-> <<"6">>, last |-> 10]

\* C5: getDescPageQuery fails on no input and validates none: for pageNum <=
\* 0, for pageNum beyond the last page and for totalCount = 0 it returns a
\* backward QueryParam all the same; with totalCount = 0 its before cursor is
\* the decimal string of pageNum * pageSize + 1 - pageSize.
C5_DescPageQueryTotal ==
    ( /\ call.op = "getDescPageQuery"
      /\ \/ call.pageNum <= 0
         \/ call.pageNum > LastPage(call.totalCount, call.pageSize)
         \/ call.totalCount = 0 )
    => /\ DOMAIN ret = {"before", "last"}
       /\ ret.last = call.pageSize
       /\ IsIntegerString(ret.before)
       /\ call.totalCount = 0
              => parseInt(ret.before)
                     = Num(call.pageNum * call.pageSize + 1 - call.pageSize)

C5_Witness ==
    /\ call.op = "getDescPageQuery"
    /\ call.pageNum = 0 - 1
    /\ call.totalCount = 0
    /\ call.pageSize = 10
    /\ ret = [before |-> <<"-", "1", "9">>, last |-> 10]

\* C6: getNextPageQueryParam(connection) returns { after: the connection's
\* endCursor, first: TABLE_PAGE_SIZE } whatever pageInfo.hasNextPage is.
C6_NextPageParam ==
    call.op = "getNextPageQueryParam"
    => /\ DOMAIN ret = {"after", "first"}
       /\ ret.after = call.connection.pageInfo.endCursor
       /\ ret.first = TABLE_PAGE_SIZE

C6_Witness ==
    /\ call.op = "getNextPageQueryParam"
    /\ ~call.connection.pageInfo.hasNextPage
    /\ call.connection.pageInfo.endCursor # call.connection.pageInfo.startCursor
    /\ ret.after = call.connection.pageInfo.endCursor

\* C7: getPreviousPageQueryParam(connection) returns { before: the
\* connection's startCursor, last: TABLE_PAGE_SIZE } whatever
\* pageInfo.hasPreviousPage is.
C7_PreviousPageParam ==
    call.op = "getPreviousPageQueryParam"
    => /\ DOMAIN ret = {"before", "last"}
       /\ ret.before = call.connection.pageInfo.startCursor
       /\ ret.last = TABLE_PAGE_SIZE

C7_Witness ==
    /\ call.op = "getPreviousPageQueryParam"
    /\ ~call.connection.pageInfo.hasPreviousPage
    /\ call.connection.pageInfo.endCursor # call.connection.pageInfo.startCursor
    /\ ret.before = call.connection.pageInfo.startCursor

\* C8: a QueryParam returned by getNextPageQueryParam,
\* getPreviousPageQueryParam or getDescPageQuery has one direction only:
\* the keys after and first, or the keys before and last, never both.
C8_OneDirection ==
    call.op \in {"getNextPageQueryParam", "getPreviousPageQueryParam", "getDescPageQuery"}
    => \/ DOMAIN ret = {"after", "first"}
       \/ DOMAIN ret = {"before", "last"}

C8_Witness ==
    /\ call.op = "getDescPageQuery"
    /\ call.pageNum = 2
    /\ call.totalCount = 25
    /\ DOMAIN ret = {"before", "last"}

\* C9: getNodeList(connection) is as long as connection.edges and its i-th
\* element is the node of the i-th edge; it is empty for no edges.
C9_NodeList ==
    call.op = "getNodeList"
    => /\ Len(ret) = Len(call.connection.edges)
       /\ \A i \in 1..Len(call.connection.edges) : ret[i] = call.connection.edges[i].node
       /\ call.connection.edges = <<>> => ret = <<>>

C9_Witness ==
    /\ call.op = "getNodeList"
    /\ Len(call.connection.edges) = 3
    /\ call.connection.edges[1].node # call.connection.edges[3].node
    /\ ret[1] = call.connection.edges[1].node
    /\ ret[3] = call.connection.edges[3].node

\* C10: in each table every page-change request issues exactly one refetch,
\* with last = TABLE_PAGE_SIZE, before = the cursor of getDescPageQuery for
\* the page asked and the connection's totalCount, first = null, after =
\* null, and the address id or pool id of the table where it has one; so
\* after any number of page changes.
C10_RefetchVariables ==
    /\ nRefetches = nRequests
    /\ nRequests > 0
       => /\ lastRefetch.last = TABLE_PAGE_SIZE
          /\ lastRefetch.before =
                 getDescPageQuery(lastRequest.page, lastRequest.totalCount,
                                  TABLE_PAGE_SIZE).before
          /\ lastRefetch.first = Null
          /\ lastRefetch.after = Null
          /\ route = "address"
                 => /\ DOMAIN lastRefetch = {"address", "first", "last", "after", "before"}
                    /\ lastRefetch.address = entity
          /\ route = "stakePool"
                 => /\ DOMAIN lastRefetch = {"poolId", "first", "last", "after", "before"}
                    /\ lastRefetch.poolId = entity
          /\ route = "recentBlocks"
                 => DOMAIN lastRefetch = {"first", "last", "after", "before"}

C10_Witness ==
    /\ route = "address"
    /\ nRequests = 3
    /\ nRefetches = 3
    /\ lastRequest = [page |-> 2, totalCount |-> 25]
    /\ lastRefetch = [address |-> <<"a", "2">>, first |-> Null, last |-> 10,
                      after |-> Null, before |-> <<"1", "6">>]

\* the window of a page: the indices in before - pageSize .. before - 1
\* (before itself left out) that lie in 0 .. totalCount - 1
PageWindow(before, pageSize, totalCount) ==
    {i \in 0..(totalCount - 1) :
        /\ parseInt(before).n - pageSize <= i
        /\ i <= parseInt(before).n - 1}

\* the window of page q, with the cursor getDescPageQuery gives for it
WindowOfPage(q, totalCount, pageSize) ==
    PageWindow(getDescPageQuery(q, totalCount, pageSize).before, pageSize, totalCount)

\* the windows of pages p and p + 1 share no index and the second starts
\* right after the end of the first
AdjacentDisjoint(p, totalCount, pageSize) ==
    LET this == WindowOfPage(p, totalCount, pageSize)
        next == WindowOfPage(p + 1, totalCount, pageSize)
    IN  /\ this \cap next = {}
        /\ this # {}
        /\ next # {}
        /\ \E i \in this : i + 1 \in next /\ \A j \in this : j <= i
        /\ \A i \in this, j \in next : i < j

\* C11 as stated: for totalCount >= 1 and a page p of 1..ceil(totalCount /
\* pageSize), with the window of a page taken from the before cursor of
\* getDescPageQuery, the windows of p and p + 1 are adjacent and disjoint, and
\* the windows of pages 1..ceil(totalCount / pageSize) cover every index of
\* 0..totalCount-1 exactly once.
C11_WindowsPartition ==
    ( /\ call.op = "getDescPageQuery"
      /\ call.totalCount >= 1
      /\ call.pageNum \in 1..LastPage(call.totalCount, call.pageSize) )
    => LET pages == 1..LastPage(call.totalCount, call.pageSize)
       IN  /\ PageWindow(ret.before, call.pageSize, call.totalCount)
                  = WindowOfPage(call.pageNum, call.totalCount, call.pageSize)
           /\ (call.pageNum + 1 \in pages)
                  => AdjacentDisjoint(call.pageNum, call.totalCount, call.pageSize)
           /\ \A i \in 0..(call.totalCount - 1) :
                  Cardinality({q \in pages :
                      i \in WindowOfPage(q, call.totalCount, call.pageSize)}) = 1

\* C11, where it holds: the same when pageSize does not divide totalCount
\* (or pageSize is 1); and for every totalCount the windows of consecutive
\* pages are adjacent and disjoint and no index is in two windows.
C11_HoldsWhenNotDivisible ==
    ( /\ call.op = "getDescPageQuery"
      /\ call.totalCount >= 1
      /\ call.pageNum \in 1..LastPage(call.totalCount, call.pageSize) )
    => LET pages == 1..LastPage(call.totalCount, call.pageSize)
       IN  /\ (call.pageNum + 1 \in pages)
                  => AdjacentDisjoint(call.pageNum, call.totalCount, call.pageSize)
           /\ \A i \in 0..(call.totalCount - 1) :
                  Cardinality({q \in pages :
                      i \in WindowOfPage(q, call.totalCount, call.pageSize)}) <= 1
           /\ (call.totalCount % call.pageSize # 0 \/ call.pageSize = 1)
                  => \A i \in 0..(call.totalCount - 1) :
                         \E q \in pages : i \in WindowOfPage(q, call.totalCount, call.pageSize)
           /\ (call.totalCount % call.pageSize = 0 /\ call.pageSize > 1)
                  => \A q \in pages :
                         (call.totalCount - 1) \notin WindowOfPage(q, call.totalCount, call.pageSize)

\* C12: on initial load a table is fetched with last = TABLE_PAGE_SIZE and no
\* before cursor, so the endCursor answered is totalCount - 1; for totalCount
\* >= 1 the page number the table then shows, pageNumberDesc(connection), is
\* ceil(totalCount / TABLE_PAGE_SIZE), the number of the last page, and so
\* within 1..ceil(totalCount / TABLE_PAGE_SIZE).
C12_InitialPageIsLastPage ==
    ( /\ route # "none"
      /\ nRequests = 0
      /\ props.present
      /\ serverTotal >= 1 )
    => LET connection == ConnectionOf(route, props)
           arguments == FragmentArguments(route, RouteVariables(route, entity))
           lastPage == LastPage(serverTotal, TABLE_PAGE_SIZE)
       IN  /\ arguments.last = TABLE_PAGE_SIZE
           /\ arguments.before = Null
           /\ connection.totalCount = serverTotal
           /\ IsDecimalString(connection.pageInfo.endCursor)
           /\ parseInt(connection.pageInfo.endCursor) = Num(serverTotal - 1)
           /\ currentPage(connection) = Num(lastPage)
           /\ ~currentPage(connection).isNaN
           /\ currentPage(connection).n \in 1..lastPage

C12_Witness ==
    /\ route = "recentBlocks"
    /\ nRequests = 0
    /\ serverTotal = 25
    /\ props.blocks.pageInfo.endCursor = <<"2", "4">>
    /\ currentPage(props.blocks) = Num(3)

====
